---- MODULE Spec2Model ----
(***************************************************************************)
(* Model of modules/iscsitarget.py: the salt execution module that drives  *)
(* the iSCSI Enterprise Target daemon (ietadm), LVM (lvcreate / lvremove)  *)
(* and the static configuration file ietd.conf.                            *)
(*                                                                         *)
(* Text is modelled as text: a string is a sequence of one-character       *)
(* strings, a file is a sequence of lines, each line ending in "\n".  The  *)
(* string operations the module uses (format, in, split, lstrip,           *)
(* startswith, int) are operators that compute what Python computes.       *)
(***************************************************************************)
EXTENDS Integers, Sequences, FiniteSets, TLC

VARIABLES
    running,    \* is a root-owned ietd process alive (what pgrep reports)
    targets,    \* the daemon's live targets, in the order /proc/net/iet/volume lists them
    cfg,        \* the lines of the config file (iscsitarget.config)
    lvs,        \* names of the logical volumes present in the volume group
    created,    \* history: every target ID an add_target created in this daemon lifetime
    edits,      \* number of direct config-editor calls made (SpecCfg)
    last,       \* the last call: operation, arguments, return value, commands issued
    procs       \* the invocations that run side by side, step by step (SpecSteps)

vars == <<running, targets, cfg, lvs, created, edits, last, procs>>

----------------------------------------------------------------------------
(* Bounds of the model *)

\* add_target is not called once the next ID would exceed MaxTid
MaxTid == 2
\* add_target and add_lun are not called once the config file has MaxCfgLines lines
MaxCfgLines == 3
\* SpecCfg applies at most MaxEdits config-editor calls to an initial file
MaxEdits == 2

\* calls that the side-by-side invocations start in all (SpecSteps)
MaxCalls == 2

----------------------------------------------------------------------------
(* Python string operations *)

NL == "\n"
TAB == "\t"
SP == " "

\* str.isspace for the characters that occur
IsSpace(c) == c \in {SP, TAB, NL, "\r"}

\* s.startswith(p)
StartsWith(s, p) == Len(p) <= Len(s) /\ \A j \in 1..Len(p) : s[j] = p[j]

\* p in s
Contains(s, p) ==
    \E i \in 0..(Len(s) - Len(p)) : \A j \in 1..Len(p) : s[i + j] = p[j]

\* s.lstrip()
RECURSIVE LStrip(_)
LStrip(s) ==
    IF s # << >> /\ IsSpace(Head(s)) THEN LStrip(Tail(s)) ELSE s

\* s.split(sep) for a one-character separator
RECURSIVE SplitAcc(_, _, _)
SplitAcc(s, sep, cur) ==
    IF s = << >> THEN <<cur>>
    ELSE IF Head(s) = sep THEN <<cur>> \o SplitAcc(Tail(s), sep, << >>)
    ELSE SplitAcc(Tail(s), sep, Append(cur, Head(s)))

Split(s, sep) == SplitAcc(s, sep, << >>)

\* xs[-1]
LastOf(xs) == xs[Len(xs)]

DigitChars == <<"0", "1", "2", "3", "4", "5", "6", "7", "8", "9">>

\* '{0}'.format(n) for a non-negative integer
RECURSIVE Dec(_)
Dec(n) ==
    IF n < 10 THEN <<DigitChars[n + 1]>>
    ELSE Dec(n \div 10) \o <<DigitChars[(n % 10) + 1]>>

DigitVal(c) == CHOOSE d \in 0..9 : DigitChars[d + 1] = c

IsDigit(c) == \E d \in 0..9 : DigitChars[d + 1] = c

\* int(s) for a string of decimal digits, -1 standing for ValueError
RECURSIVE IntAcc(_, _)
IntAcc(s, acc) ==
    IF s = << >> THEN acc
    ELSE IntAcc(Tail(s), acc * 10 + DigitVal(Head(s)))

ParseInt(s) ==
    IF s # << >> /\ \A i \in 1..Len(s) : IsDigit(s[i]) THEN IntAcc(s, 0) ELSE -1

\* max(xs) of a non-empty list of integers
MaxOf(xs) == CHOOSE m \in {xs[i] : i \in 1..Len(xs)} :
                 \A i \in 1..Len(xs) : xs[i] <= m

\* del xs[i] (0-based i)
DelAt(xs, i) == SubSeq(xs, 1, i) \o SubSeq(xs, i + 2, Len(xs))

\* xs.insert(i, x) (0-based i, i <= len(xs))
InsertAt(xs, i, x) == SubSeq(xs, 1, i) \o <<x>> \o SubSeq(xs, i + 1, Len(xs))

----------------------------------------------------------------------------
(* Inputs and configuration *)

\* iscsitarget.iqn_base, iscsitarget.volgroup (minion configuration)
IqnBase == <<"i", "q", "n">>
VolGroup == <<"v", "g">>

\* target names given by callers; "ab" has "a" as a prefix
Names == {<<"a">>, <<"a", "b">>}

\* LUN numbers given to add_lun and delete_lun
Luns == {1}

\* LUN numbers given to the config editor; Dec(10) has Dec(1) as a prefix
CfgLuns == {1, 10}

\* the size argument of add_lun
Size == <<"1", "G">>

\* exit codes of an external command: 0 is success
ExitCodes == {0, 1}

----------------------------------------------------------------------------
(* String formatting of the module *)

STarget == <<"T", "a", "r", "g", "e", "t">>
SLun == <<"L", "u", "n">>
STid == <<"t", "i", "d", ":">>
SDev == <<"/", "d", "e", "v", "/">>
SBlockio == <<"b", "l", "o", "c", "k", "i", "o">>

\* '{0}:{1}'.format(iqn_base, name)
Fiqn(iqn_base, name) == iqn_base \o <<":">> \o name

\* '{0}_{1}'.format(name, lun)
VolName(name, lun) == name \o <<"_">> \o Dec(lun)

\* '/dev/{0}/{1}'.format(vg, vn)
DevPath(vg, vn) == SDev \o vg \o <<"/">> \o vn

\* 'Target {0} {1}\n'.format(tid, fiqn)
TargetLine(tid, fiqn) == STarget \o <<SP>> \o Dec(tid) \o <<SP>> \o fiqn \o <<NL>>

\* 'Target {0}\n'.format(fiqn)
BareTargetLine(fiqn) == STarget \o <<SP>> \o fiqn \o <<NL>>

\* '\tLun {0} PATH=/dev/{1}/{2},Type={3}\n'.format(lun, vg, name, iotype)
LunLine(lun, vg, name, iotype) ==
    <<TAB>> \o SLun \o <<SP>> \o Dec(lun) \o <<SP>>
        \o <<"P", "A", "T", "H", "=">> \o SDev \o vg \o <<"/">> \o name
        \o <<",", "T", "y", "p", "e", "=">> \o iotype \o <<NL>>

\* 'Lun {0}'.format(lun)
LunPat(lun) == SLun \o <<SP>> \o Dec(lun)

\* clines[x].lstrip().startswith('Target')
IsTargetLine(line) == StartsWith(LStrip(line), STarget)

\* clines[t].lstrip().startswith('Lun')
IsLunLine(line) == StartsWith(LStrip(line), SLun)

----------------------------------------------------------------------------
(* /proc/net/iet/volume: the text the kernel shows for the live targets *)

\* "tid:<tid> name:<name>"
ProcTargetLine(t) ==
    STid \o Dec(t.tid) \o <<SP, "n", "a", "m", "e", ":">> \o t.name \o <<NL>>

\* "\tlun:<lun> state:0 iotype:blockio iomode:wt path:<path>"
ProcLunLine(l) ==
    <<TAB, "l", "u", "n", ":">> \o Dec(l.lun)
        \o <<SP, "s", "t", "a", "t", "e", ":", "0">>
        \o <<SP, "i", "o", "t", "y", "p", "e", ":">> \o SBlockio
        \o <<SP, "i", "o", "m", "o", "d", "e", ":", "w", "t">>
        \o <<SP, "p", "a", "t", "h", ":">> \o l.path \o <<NL>>

RECURSIVE ProcLunLines(_)
ProcLunLines(ls) ==
    IF ls = << >> THEN << >>
    ELSE <<ProcLunLine(Head(ls))>> \o ProcLunLines(Tail(ls))

\* f.readlines() of /proc/net/iet/volume
RECURSIVE ProcVolume(_)
ProcVolume(ts) ==
    IF ts = << >> THEN << >>
    ELSE <<ProcTargetLine(Head(ts))>> \o ProcLunLines(Head(ts).luns)
             \o ProcVolume(Tail(ts))

----------------------------------------------------------------------------
(* Status / ID resolution *)

\* int(x.split(' ')[0].split(':')[-1])
TidField(x) == ParseInt(LastOf(Split(Split(x, SP)[1], ":")))

\* [int(x.split(' ')[0].split(':')[-1]) for x in f.readlines() if 'tid:' in x]
RECURSIVE TidList(_)
TidList(lines) ==
    IF lines = << >> THEN << >>
    ELSE (IF Contains(Head(lines), STid) THEN <<TidField(Head(lines))>> ELSE << >>)
             \o TidList(Tail(lines))

\* a variant that numbers the new target by the count of targets
_get_new_tid_by_count(lines) == Len(TidList(lines)) + 1

\* a variant that forgets the + 1
_get_new_tid_no_increment(lines) ==
    LET tids == TidList(lines)
    IN  IF tids # << >> THEN MaxOf(tids) ELSE 1

\* _get_new_tid on the lines of /proc/net/iet/volume
_get_new_tid(lines) ==
    LET tids == TidList(lines)
    IN  IF tids # << >> THEN MaxOf(tids) + 1 ELSE 1

\* _get_tid_from_iqn: the ID on the first line that contains iqn, 0 when none does
RECURSIVE _get_tid_from_iqn(_, _)
_get_tid_from_iqn(lines, iqn) ==
    IF lines = << >> THEN 0
    ELSE IF Contains(Head(lines), iqn) THEN TidField(Head(lines))
    ELSE _get_tid_from_iqn(Tail(lines), iqn)

----------------------------------------------------------------------------
(* Config-file editor: each operator maps f.readlines() to the lines that   *)
(* _rewrite_config writes back                                              *)

\* tgt = [x for x in tgts if fiqn in clines[x]], 0-based indices
TgtIdx(clines, fiqn) ==
    {x \in 0..(Len(clines) - 1) :
        IsTargetLine(clines[x + 1]) /\ Contains(clines[x + 1], fiqn)}

MinOf(S) == CHOOSE m \in S : \A x \in S : m <= x

\* a variant that writes the new Target line at the start of the file
_config_add_target_at_start(clines, tid, fiqn) == <<TargetLine(tid, fiqn)>> \o clines

\* _config_add_target
_config_add_target(clines, tid, fiqn) == Append(clines, TargetLine(tid, fiqn))

\* the while True loop of _config_delete_target
RECURSIVE DeleteBlock(_, _)
DeleteBlock(clines, t) ==
    LET c == DelAt(clines, t)
    IN  IF t >= Len(c) \/ IsTargetLine(c[t + 1]) THEN c ELSE DeleteBlock(c, t)

\* _config_delete_target
_config_delete_target(clines, fiqn) ==
    LET tgt == TgtIdx(clines, fiqn)
    IN  IF tgt # {} THEN DeleteBlock(clines, MinOf(tgt)) ELSE clines

\* the while loop of _config_add_lun: the index after the block's leading Lun lines
RECURSIVE SkipLuns(_, _)
SkipLuns(clines, t) ==
    IF t < Len(clines) /\ IsLunLine(clines[t + 1]) THEN SkipLuns(clines, t + 1) ELSE t

\* _config_add_lun
_config_add_lun(clines, fiqn, lun, vg, name) ==
    LET nlun == LunLine(lun, vg, name, SBlockio)
        tgt == TgtIdx(clines, fiqn)
    IN  IF tgt # {}
        THEN InsertAt(clines, SkipLuns(clines, MinOf(tgt) + 1), nlun)
        ELSE Append(Append(clines, BareTargetLine(fiqn)), nlun)

\* the while loop of _config_delete_lun
RECURSIVE DeleteLuns(_, _, _)
DeleteLuns(clines, t, lun) ==
    IF t < Len(clines) /\ IsLunLine(clines[t + 1])
    THEN IF Contains(clines[t + 1], LunPat(lun))
         THEN DeleteLuns(DelAt(clines, t), t, lun)
         ELSE DeleteLuns(clines, t + 1, lun)
    ELSE clines

\* a variant that rewrites the file as it read it
_config_delete_lun_keeps_all(clines, fiqn, lun) == clines

\* _config_delete_lun
_config_delete_lun(clines, fiqn, lun) ==
    LET tgt == TgtIdx(clines, fiqn)
    IN  IF tgt # {} THEN DeleteLuns(clines, MinOf(tgt) + 1, lun) ELSE clines

----------------------------------------------------------------------------
(* External commands and return values *)

\* the lun of a call or command that has no lun argument
NoLun == -1

\* one run of an external command through cmd.run / cmd.retcode
Cmd(prog, op, tid, lun, arg, rc) ==
    [prog |-> prog, op |-> op, tid |-> tid, lun |-> lun, arg |-> arg, rc |-> rc]

\* "pgrep -u root ietd": its output is empty exactly when no ietd runs
Pgrep == Cmd("pgrep", "", 0, NoLun, << >>, IF running THEN 0 ELSE 1)

\* a variant that skips the check
_is_ietd_running_always == TRUE

\* _is_ietd_running
_is_ietd_running == running

\* a returned value: a string, a tuple or a bool
RetStr(msg, args) ==
    [type |-> "str", msg |-> msg, args |-> args, ok |-> FALSE, n |-> 0]
RetTuple(msg, args) ==
    [type |-> "tuple", msg |-> msg, args |-> args, ok |-> FALSE, n |-> 0]
RetBool(b) ==
    [type |-> "bool", msg |-> "", args |-> << >>, ok |-> b, n |-> 0]
RetInt(n) ==
    [type |-> "int", msg |-> "", args |-> << >>, ok |-> FALSE, n |-> n]

MsgNotActive == "Error: (ietd) ietd not active"
MsgNotFound == "Error: (proc/net/iet/volume) {0} not found"
MsgNewTarget == "Error: ietadm({0}) Could not create iSCSI Target {1}"
MsgDelTarget == "Error: ietadm({0}) Could not delete target {1}"

Call(op, name, lun, ret, cmds) ==
    [op |-> op, name |-> name, lun |-> lun, ret |-> ret, cmds |-> cmds]

----------------------------------------------------------------------------
(* What a command that exits 0 has done to the daemon and to LVM *)

LiveNames(ts) == {ts[i].name : i \in 1..Len(ts)}
LiveTids(ts) == {ts[i].tid : i \in 1..Len(ts)}

\* ietadm --op new --tid <tid> --params Name=<fiqn>: the table lists the new
\* target first or last
IetNewTarget(ts, tid, fiqn, front) ==
    LET t == [tid |-> tid, name |-> fiqn, luns |-> << >>]
    IN  IF front THEN <<t>> \o ts ELSE Append(ts, t)

\* ietadm --op delete --tid <tid>
IetDeleteTarget(ts, tid) == SelectSeq(ts, LAMBDA t : t.tid # tid)

\* ietadm --op new --tid <tid> --lun <lun> --params Path=<path>,Type=blockio
IetNewLun(ts, tid, lun, path) ==
    [i \in 1..Len(ts) |->
        IF ts[i].tid = tid
        THEN [ts[i] EXCEPT !.luns = Append(@, [lun |-> lun, path |-> path])]
        ELSE ts[i]]

\* ietadm --op delete --tid <tid> --lun <lun>
IetDeleteLun(ts, tid, lun) ==
    [i \in 1..Len(ts) |->
        IF ts[i].tid = tid
        THEN [ts[i] EXCEPT !.luns = SelectSeq(@, LAMBDA l : l.lun # lun)]
        ELSE ts[i]]

HasLun(ts, tid, lun) ==
    \E i \in 1..Len(ts) :
        ts[i].tid = tid /\ \E j \in 1..Len(ts[i].luns) : ts[i].luns[j].lun = lun

\* the exit codes the command can end with: ietd refuses a second target of
\* the same name; it takes the ID as the caller chose it
NewTargetCodes(ts, tid, fiqn) ==
    IF fiqn \in LiveNames(ts) THEN ExitCodes \ {0} ELSE ExitCodes

\* ietd refuses a LUN number the target already has; lvcreate refuses a volume
\* name that exists; lvremove and the LUN delete refuse what does not exist
NewLunCodes(ts, tid, lun) ==
    IF tid \notin LiveTids(ts) \/ HasLun(ts, tid, lun) THEN ExitCodes \ {0} ELSE ExitCodes

DeleteLunCodes(ts, tid, lun) ==
    IF HasLun(ts, tid, lun) THEN ExitCodes ELSE ExitCodes \ {0}

LvcreateCodes(vols, vn) == IF vn \in vols THEN ExitCodes \ {0} ELSE ExitCodes

LvremoveCodes(vols, vn) == IF vn \in vols THEN ExitCodes ELSE ExitCodes \ {0}

----------------------------------------------------------------------------
(* Invocations of the module that run side by side: the module takes no    *)
(* lock, every invocation is a salt job of its own                         *)

\* two salt jobs
Procs == {"job1", "job2"}

\* an invocation that has not started: where it stands (pc), the call and its
\* locals (tid, the volume table it read in seen, the clines it read in buf),
\* the commands and file accesses it has made (log), its return value and
\* the number of calls this job has started
IdleProc ==
    [pc |-> "idle", op |-> "none", name |-> << >>, lun |-> NoLun, tid |-> 0,
     seen |-> << >>, buf |-> << >>, log |-> << >>, ret |-> RetBool(TRUE),
     calls |-> 0]

----------------------------------------------------------------------------
(* Public operations: one action per call, from entry to return *)

Init ==
    /\ running = TRUE
    /\ targets = << >>
    /\ cfg = << >>
    /\ lvs = {}
    /\ created = {}
    /\ edits = 0
    /\ procs = [p \in Procs |-> IdleProc]
    /\ last = Call("none", << >>, NoLun, RetBool(TRUE), << >>)

\* a variant that appends to the config whatever the exit code
AddTargetConfigAlways(out, clines, tid, fiqn) == _config_add_target(clines, tid, fiqn)

\* add_target, lines 305-309: the config append follows a zero exit only
AddTargetConfig(out, clines, tid, fiqn) ==
    IF out # 0 THEN clines ELSE _config_add_target(clines, tid, fiqn)

\* add_target(name)
add_target(name) ==
    LET fiqn == Fiqn(IqnBase, name)
        tid == _get_new_tid(ProcVolume(targets))
    IN  IF ~_is_ietd_running
        THEN /\ last' = Call("add_target", name, NoLun,
                             RetTuple(MsgNotActive, << >>), <<Pgrep>>)
             /\ UNCHANGED <<procs, running, targets, cfg, lvs, created, edits>>
        ELSE /\ tid <= MaxTid
             /\ Len(cfg) < MaxCfgLines
             /\ \E out \in NewTargetCodes(targets, tid, fiqn), front \in BOOLEAN :
                  /\ targets' = IF out # 0 THEN targets
                                ELSE IetNewTarget(targets, tid, fiqn, front)
                  /\ created' = IF out # 0 THEN created ELSE created \cup {tid}
                  /\ cfg' = AddTargetConfig(out, cfg, tid, fiqn)
                  /\ last' = Call("add_target", name, NoLun,
                                  IF out # 0
                                  THEN RetStr(MsgNewTarget, <<Dec(out), fiqn>>)
                                  ELSE RetTuple("", <<name, fiqn>>),
                                  <<Pgrep, Cmd("ietadm", "new", tid, NoLun, fiqn, out)>>)
             /\ UNCHANGED <<procs, running, lvs, edits>>

\* delete_target(name); its vols = _get_volumes(fiqn) only reads the table and
\* the value is not used
delete_target(name) ==
    LET fiqn == Fiqn(IqnBase, name)
        tid == _get_tid_from_iqn(ProcVolume(targets), fiqn)
    IN  IF ~_is_ietd_running
        THEN /\ last' = Call("delete_target", name, NoLun,
                             RetStr(MsgNotActive, << >>), <<Pgrep>>)
             /\ UNCHANGED <<procs, running, targets, cfg, lvs, created, edits>>
        ELSE IF tid = 0
        THEN /\ last' = Call("delete_target", name, NoLun,
                             RetStr(MsgNotFound, <<fiqn>>), <<Pgrep>>)
             /\ UNCHANGED <<procs, running, targets, cfg, lvs, created, edits>>
        ELSE /\ \E out \in ExitCodes :
                  /\ targets' = IF out # 0 THEN targets ELSE IetDeleteTarget(targets, tid)
                  /\ cfg' = IF out # 0 THEN cfg ELSE _config_delete_target(cfg, fiqn)
                  /\ last' = Call("delete_target", name, NoLun,
                                  IF out # 0
                                  THEN RetStr(MsgDelTarget, <<Dec(out), fiqn>>)
                                  ELSE RetBool(TRUE),
                                  <<Pgrep, Cmd("ietadm", "delete", tid, NoLun, << >>, out)>>)
             /\ UNCHANGED <<procs, running, lvs, created, edits>>

\* a variant that takes the volume for created whatever lvcreate's exit code
_create_vol_unchecked(out) == TRUE

\* _create_vol: False on a non-zero exit code of lvcreate, else True
_create_vol(out) == out = 0

\* _add_lun: False on a non-zero exit code of the ietadm attach, else True
_add_lun(out) == out = 0

\* a variant that takes the LUN for detached whatever ietadm's exit code
_delete_lun_unchecked(out) == TRUE

\* _delete_lun: False on a non-zero exit code of the ietadm detach, else True
_delete_lun(out) == out = 0

\* _delete_vol: False on a non-zero exit code of lvremove, else True
_delete_vol(out) == out = 0

\* add_lun(name, lun, size)
add_lun(name, lun) ==
    LET fiqn == Fiqn(IqnBase, name)
        vn == VolName(name, lun)
        path == DevPath(VolGroup, vn)
        tid == _get_tid_from_iqn(ProcVolume(targets), fiqn)
    IN  IF ~_is_ietd_running
        THEN /\ last' = Call("add_lun", name, lun,
                             RetTuple(MsgNotActive, << >>), <<Pgrep>>)
             /\ UNCHANGED <<procs, running, targets, cfg, lvs, created, edits>>
        ELSE IF tid = 0
        THEN /\ last' = Call("add_lun", name, lun,
                             RetStr(MsgNotFound, <<fiqn>>), <<Pgrep>>)
             /\ UNCHANGED <<procs, running, targets, cfg, lvs, created, edits>>
        ELSE /\ Len(cfg) < MaxCfgLines
             /\ \E rc1 \in LvcreateCodes(lvs, vn) :
                  LET lvcreate == Cmd("lvcreate", "", 0, NoLun, vn \o <<SP>> \o Size, rc1)
                  IN  IF ~_create_vol(rc1)
                      THEN /\ last' = Call("add_lun", name, lun, RetBool(FALSE),
                                           <<Pgrep, lvcreate>>)
                           /\ UNCHANGED <<targets, cfg, lvs>>
                      ELSE \E rc2 \in NewLunCodes(targets, tid, lun) :
                           LET attach == Cmd("ietadm", "new", tid, lun, path, rc2)
                           IN  /\ lvs' = IF rc1 # 0 THEN lvs ELSE lvs \cup {vn}
                               /\ targets' = IF rc2 # 0 THEN targets
                                             ELSE IetNewLun(targets, tid, lun, path)
                               /\ cfg' = IF ~_add_lun(rc2) THEN cfg
                                         ELSE _config_add_lun(cfg, fiqn, lun, VolGroup, name)
                               /\ last' = Call("add_lun", name, lun, RetBool(_add_lun(rc2)),
                                               <<Pgrep, lvcreate, attach>>)
             /\ UNCHANGED <<procs, running, created, edits>>

\* delete_lun(name, lun)
delete_lun(name, lun) ==
    LET fiqn == Fiqn(IqnBase, name)
        vn == VolName(name, lun)
        tid == _get_tid_from_iqn(ProcVolume(targets), fiqn)
    IN  IF ~_is_ietd_running
        THEN /\ last' = Call("delete_lun", name, lun,
                             RetTuple(MsgNotActive, << >>), <<Pgrep>>)
             /\ UNCHANGED <<procs, running, targets, cfg, lvs, created, edits>>
        ELSE IF tid = 0
        THEN /\ last' = Call("delete_lun", name, lun,
                             RetStr(MsgNotFound, <<fiqn>>), <<Pgrep>>)
             /\ UNCHANGED <<procs, running, targets, cfg, lvs, created, edits>>
        ELSE /\ \E rc1 \in DeleteLunCodes(targets, tid, lun) :
                  LET detach == Cmd("ietadm", "delete", tid, lun, << >>, rc1)
                  IN  IF ~_delete_lun(rc1)
                      THEN /\ last' = Call("delete_lun", name, lun, RetBool(FALSE),
                                           <<Pgrep, detach>>)
                           /\ UNCHANGED <<targets, cfg, lvs>>
                      ELSE \E rc2 \in LvremoveCodes(lvs, vn) :
                           LET lvremove == Cmd("lvremove", "", 0, NoLun,
                                               DevPath(VolGroup, vn), rc2)
                           IN  /\ targets' = IF rc1 # 0 THEN targets
                                             ELSE IetDeleteLun(targets, tid, lun)
                               /\ cfg' = _config_delete_lun(cfg, fiqn, lun)
                               /\ lvs' = IF rc2 # 0 THEN lvs ELSE lvs \ {vn}
                               /\ last' = Call("delete_lun", name, lun,
                                               RetBool(_delete_vol(rc2)),
                                               <<Pgrep, detach, lvremove>>)
             /\ UNCHANGED <<procs, running, created, edits>>

\* the ietd process ends: pgrep finds nothing from now on
DaemonStop ==
    /\ running
    /\ running' = FALSE
    /\ UNCHANGED <<procs, targets, cfg, lvs, created, edits, last>>

Next ==
    \/ \E name \in Names : add_target(name)
    \/ \E name \in Names : delete_target(name)
    \/ \E name \in Names, lun \in Luns : add_lun(name, lun)
    \/ \E name \in Names, lun \in Luns : delete_lun(name, lun)
    \/ DaemonStop

Spec == Init /\ [][Next]_vars

----------------------------------------------------------------------------
(* The config-file editor on its own: an initial file of target blocks,    *)
(* then up to MaxEdits calls of the four editing functions                  *)

\* the orders in which a block lists LUN numbers
LunSeqs == {<< >>} \cup {<<l>> : l \in CfgLuns}
               \cup {<<l, m>> : <<l, m>> \in {p \in CfgLuns \X CfgLuns : p[1] # p[2]}}

\* the Lun lines of a block, as _config_add_lun writes them
RECURSIVE BlockLunLines(_, _)
BlockLunLines(name, ls) ==
    IF ls = << >> THEN << >>
    ELSE <<LunLine(Head(ls), VolGroup, name, SBlockio)>> \o BlockLunLines(name, Tail(ls))

\* a block: the Target line as _config_add_target (tid > 0) or _config_add_lun
\* (tid = 0) writes it, followed by its Lun lines
Block(name, tid, ls) ==
    <<IF tid = 0 THEN BareTargetLine(Fiqn(IqnBase, name))
      ELSE TargetLine(tid, Fiqn(IqnBase, name))>> \o BlockLunLines(name, ls)

Blocks(name) == {Block(name, tid, ls) : tid \in 0..1, ls \in LunSeqs}

\* files in which every target has at most one block
InitFiles ==
    {<< >>}
        \cup UNION {Blocks(n) : n \in Names}
        \cup UNION {{b1 \o b2 : b1 \in Blocks(n1), b2 \in Blocks(n2)} :
                        <<n1, n2>> \in {p \in Names \X Names : p[1] # p[2]}}

InitCfg ==
    /\ running = TRUE
    /\ targets = << >>
    /\ cfg \in InitFiles
    /\ lvs = {}
    /\ created = {}
    /\ edits = 0
    /\ procs = [p \in Procs |-> IdleProc]
    /\ last = Call("none", << >>, NoLun, RetBool(TRUE), << >>)

Edit(op, name, lun, clines) ==
    /\ edits < MaxEdits
    /\ edits' = edits + 1
    /\ cfg' = clines
    /\ last' = Call(op, name, lun, RetBool(TRUE), << >>)
    /\ UNCHANGED <<procs, running, targets, lvs, created>>

CfgAddTarget(tid, name) ==
    Edit("_config_add_target", name, NoLun,
         _config_add_target(cfg, tid, Fiqn(IqnBase, name)))

CfgDeleteTarget(name) ==
    Edit("_config_delete_target", name, NoLun,
         _config_delete_target(cfg, Fiqn(IqnBase, name)))

CfgAddLun(name, lun) ==
    Edit("_config_add_lun", name, lun,
         _config_add_lun(cfg, Fiqn(IqnBase, name), lun, VolGroup, name))

CfgDeleteLun(name, lun) ==
    Edit("_config_delete_lun", name, lun,
         _config_delete_lun(cfg, Fiqn(IqnBase, name), lun))

NextCfg ==
    \/ \E tid \in 1..MaxTid, name \in Names : CfgAddTarget(tid, name)
    \/ \E name \in Names : CfgDeleteTarget(name)
    \/ \E name \in Names, lun \in CfgLuns : CfgAddLun(name, lun)
    \/ \E name \in Names, lun \in CfgLuns : CfgDeleteLun(name, lun)

SpecCfg == InitCfg /\ [][NextCfg]_vars

----------------------------------------------------------------------------
(* ID resolution on its own: a volume table as the kernel may show it,     *)
(* then calls of _get_new_tid and _get_tid_from_iqn                         *)

\* target IDs a table may hold; Dec(10) and Dec(21) have two digits
TableTids == {1, 2, 9, 10, 21}

TableLuns(name) ==
    {<< >>, <<[lun |-> 1, path |-> DevPath(VolGroup, VolName(name, 1))]>>}

TableEntries(name) ==
    {[tid |-> t, name |-> Fiqn(IqnBase, name), luns |-> ls] :
        t \in TableTids, ls \in TableLuns(name)}

\* tables of targets with distinct names and distinct IDs, in any order
InitTables ==
    {<< >>}
        \cup UNION {{<<e>> : e \in TableEntries(n)} : n \in Names}
        \cup UNION {{<<e1, e2>> : <<e1, e2>> \in
                        {p \in TableEntries(n1) \X TableEntries(n2) : p[1].tid # p[2].tid}} :
                        <<n1, n2>> \in {p \in Names \X Names : p[1] # p[2]}}

InitTid ==
    /\ running = TRUE
    /\ targets \in InitTables
    /\ cfg = << >>
    /\ lvs = {}
    /\ created = {}
    /\ edits = 0
    /\ procs = [p \in Procs |-> IdleProc]
    /\ last = Call("none", << >>, NoLun, RetBool(TRUE), << >>)

NewTidCall ==
    /\ last' = Call("_get_new_tid", << >>, NoLun,
                    RetInt(_get_new_tid(ProcVolume(targets))), << >>)
    /\ UNCHANGED <<procs, running, targets, cfg, lvs, created, edits>>

TidFromIqnCall(name) ==
    /\ last' = Call("_get_tid_from_iqn", name, NoLun,
                    RetInt(_get_tid_from_iqn(ProcVolume(targets), Fiqn(IqnBase, name))), << >>)
    /\ UNCHANGED <<procs, running, targets, cfg, lvs, created, edits>>

NextTid ==
    \/ NewTidCall
    \/ \E name \in Names : TidFromIqnCall(name)

SpecTid == InitTid /\ [][NextTid]_vars

----------------------------------------------------------------------------
(* The public operations step by step, two invocations side by side: every *)
(* command and every access to the volume table or to the config file is a *)
(* step of its own.  The daemon keeps running in this specification.       *)

\* ''.join(lines)
RECURSIVE Join(_)
Join(lines) == IF lines = << >> THEN << >> ELSE Head(lines) \o Join(Tail(lines))

\* f.readlines(): the text cut behind every newline; ends are the positions
\* where a line ends, the k-th line runs from behind the end before it
LineEnds(text) ==
    {i \in 1..Len(text) : text[i] = NL \/ i = Len(text)}

ReadLines(text) ==
    LET ends == LineEnds(text)
        EndOf(k) == CHOOSE e \in ends : Cardinality({x \in ends : x <= e}) = k
    IN  [k \in 1..Cardinality(ends) |->
            SubSeq(text, IF k = 1 THEN 1 ELSE EndOf(k - 1) + 1, EndOf(k))]

\* cf.seek(0); cf.write(text): the text replaces the start of the file
WriteAtStart(old, text) == text \o SubSeq(old, Len(text) + 1, Len(old))

\* a variant that leaves out cf.truncate()
_rewrite_config_no_truncate(cf, lines) == ReadLines(WriteAtStart(Join(cf), Join(lines)))

\* _rewrite_config(cf, lines) on the file whose lines are cf
_rewrite_config(cf, lines) ==
    LET text == Join(lines)
    IN  ReadLines(SubSeq(WriteAtStart(Join(cf), text), 1, Len(text)))

\* an access to the config file in the log of an invocation
FileAccess(op) == Cmd("file", op, 0, NoLun, << >>, 0)

RECURSIVE SumCalls(_)
SumCalls(S) ==
    IF S = {} THEN 0
    ELSE LET p == CHOOSE x \in S : TRUE IN procs[p].calls + SumCalls(S \ {p})

\* job p is free to start a call
CanBegin(p) == procs[p].pc \in {"idle", "done"} /\ SumCalls(Procs) < MaxCalls

\* the invocation at its entry, after the pgrep of _is_ietd_running
Begin(p, op, name, lun) ==
    [IdleProc EXCEPT !.op = op, !.name = name, !.lun = lun,
                     !.calls = procs[p].calls + 1, !.log = <<Pgrep>>]

Logged(pr, c) == [pr EXCEPT !.log = Append(@, c)]

Done(pr, ret) == [pr EXCEPT !.pc = "done", !.ret = ret]

\* add_target, lines 294-300: pgrep, then _get_new_tid reads the volume table
add_target_begin(p, name) ==
    /\ CanBegin(p)
    /\ LET b == Begin(p, "add_target", name, NoLun)
       IN  procs' = [procs EXCEPT ![p] =
               IF ~_is_ietd_running THEN Done(b, RetTuple(MsgNotActive, << >>))
               ELSE [b EXCEPT !.pc = "ietadm", !.seen = targets,
                              !.tid = _get_new_tid(ProcVolume(targets))]]
    /\ UNCHANGED <<running, targets, cfg, lvs, created, edits, last>>

\* add_target, lines 302-306: ietadm --op new --tid <tid> --params Name=<fiqn>
add_target_ietadm(p) ==
    LET pr == procs[p]
        fiqn == Fiqn(IqnBase, pr.name)
    IN  /\ pr.pc = "ietadm" /\ pr.op = "add_target"
        /\ \E out \in NewTargetCodes(targets, pr.tid, fiqn), front \in BOOLEAN :
             LET l == Logged(pr, Cmd("ietadm", "new", pr.tid, NoLun, fiqn, out))
             IN  /\ targets' = IF out # 0 THEN targets
                               ELSE IetNewTarget(targets, pr.tid, fiqn, front)
                 /\ created' = IF out # 0 THEN created ELSE created \cup {pr.tid}
                 /\ procs' = [procs EXCEPT ![p] =
                        IF out # 0
                        THEN Done(l, RetStr(MsgNewTarget, <<Dec(out), fiqn>>))
                        ELSE [l EXCEPT !.pc = "append"]]
        /\ UNCHANGED <<running, cfg, lvs, edits, last>>

\* add_target, lines 308-311: _config_add_target writes to the file opened
\* for appending, then the call returns name, fiqn
add_target_config(p) ==
    LET pr == procs[p]
        fiqn == Fiqn(IqnBase, pr.name)
    IN  /\ pr.pc = "append"
        /\ cfg' = _config_add_target(cfg, pr.tid, fiqn)
        /\ procs' = [procs EXCEPT ![p] =
               Done(Logged(pr, FileAccess("append")), RetTuple("", <<pr.name, fiqn>>))]
        /\ UNCHANGED <<running, targets, lvs, created, edits, last>>

\* delete_target, add_lun, delete_lun up to the resolution of the target ID
\* by _get_tid_from_iqn; first names the step that follows
Resolve(p, op, name, lun, first) ==
    LET b == Begin(p, op, name, lun)
        fiqn == Fiqn(IqnBase, name)
        tid == _get_tid_from_iqn(ProcVolume(targets), fiqn)
    IN  /\ CanBegin(p)
        /\ procs' = [procs EXCEPT ![p] =
               IF ~_is_ietd_running
               THEN Done(b, IF op = "delete_target" THEN RetStr(MsgNotActive, << >>)
                            ELSE RetTuple(MsgNotActive, << >>))
               ELSE IF tid = 0 THEN Done(b, RetStr(MsgNotFound, <<fiqn>>))
               ELSE [b EXCEPT !.pc = first, !.seen = targets, !.tid = tid]]
        /\ UNCHANGED <<running, targets, cfg, lvs, created, edits, last>>

\* delete_target, lines 332-343
delete_target_begin(p, name) == Resolve(p, "delete_target", name, NoLun, "ietadm")

\* delete_target, lines 345-350: ietadm --op delete --tid <tid>
delete_target_ietadm(p) ==
    LET pr == procs[p]
    IN  /\ pr.pc = "ietadm" /\ pr.op = "delete_target"
        /\ \E out \in ExitCodes :
             LET l == Logged(pr, Cmd("ietadm", "delete", pr.tid, NoLun, << >>, out))
             IN  /\ targets' = IF out # 0 THEN targets
                               ELSE IetDeleteTarget(targets, pr.tid)
                 /\ procs' = [procs EXCEPT ![p] =
                        IF out # 0
                        THEN Done(l, RetStr(MsgDelTarget,
                                            <<Dec(out), Fiqn(IqnBase, pr.name)>>))
                        ELSE [l EXCEPT !.pc = "readlines"]]
        /\ UNCHANGED <<running, cfg, lvs, created, edits, last>>

\* add_lun, lines 367-378
add_lun_begin(p, name, lun) == Resolve(p, "add_lun", name, lun, "lvcreate")

\* add_lun, lines 380-382: _create_vol runs lvcreate
add_lun_lvcreate(p) ==
    LET pr == procs[p]
        vn == VolName(pr.name, pr.lun)
    IN  /\ pr.pc = "lvcreate"
        /\ \E rc \in LvcreateCodes(lvs, vn) :
             LET l == Logged(pr, Cmd("lvcreate", "", 0, NoLun, vn \o <<SP>> \o Size, rc))
             IN  /\ lvs' = IF rc # 0 THEN lvs ELSE lvs \cup {vn}
                 /\ procs' = [procs EXCEPT ![p] =
                        IF ~_create_vol(rc) THEN Done(l, RetBool(FALSE))
                        ELSE [l EXCEPT !.pc = "ietadm"]]
        /\ UNCHANGED <<running, targets, cfg, created, edits, last>>

\* add_lun, lines 384-386: _add_lun runs ietadm --op new --tid <tid> --lun <lun>
add_lun_ietadm(p) ==
    LET pr == procs[p]
        path == DevPath(VolGroup, VolName(pr.name, pr.lun))
    IN  /\ pr.pc = "ietadm" /\ pr.op = "add_lun"
        /\ \E rc \in NewLunCodes(targets, pr.tid, pr.lun) :
             LET l == Logged(pr, Cmd("ietadm", "new", pr.tid, pr.lun, path, rc))
             IN  /\ targets' = IF rc # 0 THEN targets
                               ELSE IetNewLun(targets, pr.tid, pr.lun, path)
                 /\ procs' = [procs EXCEPT ![p] =
                        IF ~_add_lun(rc) THEN Done(l, RetBool(FALSE))
                        ELSE [l EXCEPT !.pc = "readlines"]]
        /\ UNCHANGED <<running, cfg, lvs, created, edits, last>>

\* delete_lun, lines 403-414
delete_lun_begin(p, name, lun) == Resolve(p, "delete_lun", name, lun, "ietadm")

\* delete_lun, lines 416-418: _delete_lun runs ietadm --op delete --tid <tid>
\* --lun <lun>
delete_lun_ietadm(p) ==
    LET pr == procs[p]
    IN  /\ pr.pc = "ietadm" /\ pr.op = "delete_lun"
        /\ \E rc \in DeleteLunCodes(targets, pr.tid, pr.lun) :
             LET l == Logged(pr, Cmd("ietadm", "delete", pr.tid, pr.lun, << >>, rc))
             IN  /\ targets' = IF rc # 0 THEN targets
                               ELSE IetDeleteLun(targets, pr.tid, pr.lun)
                 /\ procs' = [procs EXCEPT ![p] =
                        IF ~_delete_lun(rc) THEN Done(l, RetBool(FALSE))
                        ELSE [l EXCEPT !.pc = "readlines"]]
        /\ UNCHANGED <<running, cfg, lvs, created, edits, last>>

\* with open(config, 'r+') as f: clines = f.readlines(), in
\* _config_delete_target, _config_add_lun and _config_delete_lun
config_readlines(p) ==
    LET pr == procs[p]
    IN  /\ pr.pc = "readlines"
        /\ procs' = [procs EXCEPT ![p] =
               [Logged(pr, FileAccess("readlines")) EXCEPT !.pc = "rewrite", !.buf = cfg]]
        /\ UNCHANGED <<running, targets, cfg, lvs, created, edits, last>>

\* the lines the editing function of the call makes of the clines it read
Edited(pr) ==
    LET fiqn == Fiqn(IqnBase, pr.name)
    IN  CASE pr.op = "delete_target" -> _config_delete_target(pr.buf, fiqn)
          [] pr.op = "add_lun" -> _config_add_lun(pr.buf, fiqn, pr.lun, VolGroup, pr.name)
          [] pr.op = "delete_lun" -> _config_delete_lun(pr.buf, fiqn, pr.lun)

\* _rewrite_config(f, clines) at the end of the editing function; delete_lun
\* goes on to _delete_vol, delete_target and add_lun return True
config_rewrite(p) ==
    LET pr == procs[p]
        l == Logged(pr, FileAccess("rewrite"))
    IN  /\ pr.pc = "rewrite"
        /\ cfg' = _rewrite_config(cfg, Edited(pr))
        /\ procs' = [procs EXCEPT ![p] =
               IF pr.op = "delete_lun" THEN [l EXCEPT !.pc = "lvremove"]
               ELSE Done(l, RetBool(TRUE))]
        /\ UNCHANGED <<running, targets, lvs, created, edits, last>>

\* delete_lun, lines 423-427: _delete_vol runs lvremove
delete_lun_lvremove(p) ==
    LET pr == procs[p]
        vn == VolName(pr.name, pr.lun)
    IN  /\ pr.pc = "lvremove"
        /\ \E rc \in LvremoveCodes(lvs, vn) :
             /\ lvs' = IF rc # 0 THEN lvs ELSE lvs \ {vn}
             /\ procs' = [procs EXCEPT ![p] =
                    Done(Logged(pr, Cmd("lvremove", "", 0, NoLun,
                                        DevPath(VolGroup, vn), rc)),
                         RetBool(_delete_vol(rc)))]
        /\ UNCHANGED <<running, targets, cfg, created, edits, last>>

\* the state after add_target(a), add_target(ab), add_lun(a, 1), as the
\* operators of the calls make it
InitTargets ==
    LET a == <<"a">>
        ab == <<"a", "b">>
        both == IetNewTarget(IetNewTarget(<< >>, 1, Fiqn(IqnBase, a), FALSE),
                             2, Fiqn(IqnBase, ab), FALSE)
    IN  [targets |-> IetNewLun(both, 1, 1, DevPath(VolGroup, VolName(a, 1))),
         cfg |-> _config_add_lun(
                     _config_add_target(
                         _config_add_target(<< >>, 1, Fiqn(IqnBase, a)),
                         2, Fiqn(IqnBase, ab)),
                     Fiqn(IqnBase, a), 1, VolGroup, a),
         lvs |-> {VolName(a, 1)},
         created |-> {1, 2}]

\* a fresh daemon with an empty config file, or targets a (with LUN 1) and ab
InitSteps ==
    /\ running = TRUE
    /\ \/ targets = << >> /\ cfg = << >> /\ lvs = {} /\ created = {}
       \/ /\ targets = InitTargets.targets
          /\ cfg = InitTargets.cfg
          /\ lvs = InitTargets.lvs
          /\ created = InitTargets.created
    /\ edits = 0
    /\ last = Call("none", << >>, NoLun, RetBool(TRUE), << >>)
    /\ procs = [p \in Procs |-> IdleProc]

NextSteps ==
    \/ \E p \in Procs, name \in Names : add_target_begin(p, name)
    \/ \E p \in Procs : add_target_ietadm(p)
    \/ \E p \in Procs : add_target_config(p)
    \/ \E p \in Procs, name \in Names : delete_target_begin(p, name)
    \/ \E p \in Procs : delete_target_ietadm(p)
    \/ \E p \in Procs, name \in Names, lun \in Luns : add_lun_begin(p, name, lun)
    \/ \E p \in Procs : add_lun_lvcreate(p)
    \/ \E p \in Procs : add_lun_ietadm(p)
    \/ \E p \in Procs, name \in Names, lun \in Luns : delete_lun_begin(p, name, lun)
    \/ \E p \in Procs : delete_lun_ietadm(p)
    \/ \E p \in Procs : config_readlines(p)
    \/ \E p \in Procs : config_rewrite(p)
    \/ \E p \in Procs : delete_lun_lvremove(p)

SpecSteps == InitSteps /\ [][NextSteps]_vars

----------------------------------------------------------------------------
(* Properties *)

PublicOps == {"add_target", "delete_target", "add_lun", "delete_lun"}

\* a step of Spec that is a call of a public operation on a running daemon:
\* the call is then described by last'
RunningCall == running /\ running'

\* the commands of a call other than the pgrep of _is_ietd_running
Issued(call) == {call.cmds[i] : i \in 2..Len(call.cmds)}

\* C1: the ID of a target that add_target creates was never created before in
\* this daemon lifetime, also not for a target deleted since
C1_IdNeverReused ==
    [][\A t \in LiveTids(targets') \ LiveTids(targets) : t \notin created]_vars

\* C2: no two live targets of the daemon's volume table share a target ID
C2_LiveIdsDistinct ==
    \A i, j \in 1..Len(targets) : i # j => targets[i].tid # targets[j].tid

C2_Witness ==
    /\ Len(targets) = 2
    /\ last.op = "add_target"
    /\ last.ret.type = "tuple" /\ last.ret.msg = ""
    /\ \E i \in 1..2 : targets[i].luns # << >>

\* C3: _get_new_tid returns the maximum ID of the table plus one, which is
\* greater than every ID in the table, and 1 for a table without a target
C3_NewTidAboveAll ==
    last.op = "_get_new_tid" =>
        /\ \A t \in LiveTids(targets) : last.ret.n > t
        /\ targets = << >> => last.ret.n = 1
        /\ targets # << >> => last.ret.n - 1 \in LiveTids(targets)

C3_Witness ==
    /\ last.op = "_get_new_tid"
    /\ LiveTids(targets) = {9, 21}
    /\ \E i \in 1..Len(targets) : targets[i].luns # << >>
    /\ last.ret.n = 22

----------------------------------------------------------------------------
(* What the frame claims about the config editor say, line by line *)

\* the Target lines that name exactly this target
OwnTargetLines(name) ==
    {BareTargetLine(Fiqn(IqnBase, name))}
        \cup {TargetLine(t, Fiqn(IqnBase, name)) : t \in 1..MaxTid}

\* the Lun lines with this number
LunLinesNumbered(lun) == {LunLine(lun, VolGroup, n, SBlockio) : n \in Names}

\* the Lun lines of this target's volumes
LunLinesOwnedBy(name) == {LunLine(l, VolGroup, name, SBlockio) : l \in CfgLuns}

AllLunLines == UNION {LunLinesNumbered(l) : l \in CfgLuns}

AllTargetLines == UNION {OwnTargetLines(n) : n \in Names}

HasBlock(clines, name) == \E i \in 1..Len(clines) : clines[i] \in OwnTargetLines(name)

\* 1-based index of the Target line of the target's block
BlockStart(clines, name) ==
    MinOf({i \in 1..Len(clines) : clines[i] \in OwnTargetLines(name)})

\* 1-based index of the last line of the block that starts at i
BlockEnd(clines, i) ==
    CHOOSE j \in i..Len(clines) :
        /\ \A k \in (i + 1)..j : clines[k] \in AllLunLines
        /\ j = Len(clines) \/ clines[j + 1] \notin AllLunLines

\* the lines at the indices not in drop, in order
RECURSIVE KeepFrom(_, _, _)
KeepFrom(clines, drop, k) ==
    IF k > Len(clines) THEN << >>
    ELSE (IF k \in drop THEN << >> ELSE <<clines[k]>>) \o KeepFrom(clines, drop, k + 1)

Without(clines, drop) == KeepFrom(clines, drop, 1)

\* a step of SpecCfg that is a call of the editing function op
EditStep(op) == edits' = edits + 1 /\ last'.op = op

\* C4: _config_delete_target removes exactly the block of the target (its
\* Target line and the Lun lines that follow it) and no other line
C4_DeletesExactlyOwnBlock ==
    [][EditStep("_config_delete_target") =>
        cfg' = IF HasBlock(cfg, last'.name)
               THEN LET i == BlockStart(cfg, last'.name)
                    IN  Without(cfg, i..BlockEnd(cfg, i))
               ELSE cfg]_vars

\* C5: _config_delete_lun removes only the Lun line with number n of the
\* target's block
C5_DeletesOnlyThatLun ==
    [][EditStep("_config_delete_lun") =>
        cfg' = IF HasBlock(cfg, last'.name)
               THEN LET i == BlockStart(cfg, last'.name)
                    IN  Without(cfg, {k \in (i + 1)..BlockEnd(cfg, i) :
                                         cfg[k] \in LunLinesNumbered(last'.lun)})
               ELSE cfg]_vars

\* C6: _config_add_lun inserts the new Lun line right after the last Lun line
\* of the target's own block, or appends a new two-line block when the target
\* has none; no other line changes
C6_InsertsAtEndOfOwnBlock ==
    [][EditStep("_config_add_lun") =>
        LET nlun == LunLine(last'.lun, VolGroup, last'.name, SBlockio)
        IN  cfg' = IF HasBlock(cfg, last'.name)
                   THEN InsertAt(cfg, BlockEnd(cfg, BlockStart(cfg, last'.name)), nlun)
                   ELSE cfg \o <<BareTargetLine(Fiqn(IqnBase, last'.name)), nlun>>]_vars

\* the Target line that opens the block line i lies in, 0 when there is none
OpeningTarget(clines, i) ==
    LET before == {j \in 1..(i - 1) : clines[j] \in AllTargetLines}
    IN  IF before = {} THEN 0 ELSE CHOOSE j \in before : \A k \in before : k <= j

\* C7: every Lun line lies in the block of the target that owns it: after its
\* owner's Target line and before the next Target line
C7_LunsGrouped ==
    \A i \in 1..Len(cfg), name \in Names :
        cfg[i] \in LunLinesOwnedBy(name) =>
            /\ OpeningTarget(cfg, i) # 0
            /\ cfg[OpeningTarget(cfg, i)] \in OwnTargetLines(name)

----------------------------------------------------------------------------

\* C8: a call made while no ietd runs returns the not-active error, issues no
\* ietadm, lvcreate or lvremove and leaves config file, volume table and
\* logical volumes as they were
C8_NotRunningChangesNothing ==
    [][~running =>
        /\ last'.op \in PublicOps
        /\ last'.ret.msg = MsgNotActive
        /\ \A i \in 1..Len(last'.cmds) : last'.cmds[i].prog = "pgrep"
        /\ UNCHANGED <<cfg, targets, lvs>>]_vars

C8_Witness ==
    /\ ~running
    /\ last.op = "add_lun"
    /\ last.ret.msg = MsgNotActive
    /\ Fiqn(IqnBase, last.name) \in LiveNames(targets)
    /\ cfg # << >>

C10_FailedCreateLeavesConfig ==
    [][(RunningCall /\ last'.op = "add_target") =>
        LET create == last'.cmds[2]
        IN  /\ create.prog = "ietadm" /\ create.op = "new"
            /\ create.rc # 0 =>
                   /\ cfg' = cfg
                   /\ last'.ret = RetStr(MsgNewTarget,
                                         <<Dec(create.rc), Fiqn(IqnBase, last'.name)>>)
            /\ cfg' # cfg => create.rc = 0]_vars

C10_Witness ==
    /\ last.op = "add_target"
    /\ Len(last.cmds) = 2
    /\ last.cmds[2].rc # 0
    /\ last.ret.msg = MsgNewTarget
    /\ Fiqn(IqnBase, last.name) \notin LiveNames(targets)
    /\ cfg # << >>

----------------------------------------------------------------------------

\* C11: when the lvcreate of add_lun fails the call ends there: no ietadm
\* command is issued and the daemon's table and the config file are unchanged
C11_FailedCreateVolStops ==
    [][(RunningCall /\ last'.op = "add_lun" /\ Len(last'.cmds) >= 2) =>
        LET lvcreate == last'.cmds[2]
        IN  /\ lvcreate.prog = "lvcreate"
            /\ lvcreate.rc # 0 =>
                   /\ \A c \in Issued(last') : c.prog # "ietadm"
                   /\ UNCHANGED <<targets, cfg>>
                   /\ last'.ret = RetBool(FALSE)]_vars

C11_Witness ==
    /\ last.op = "add_lun"
    /\ Len(last.cmds) = 2
    /\ last.cmds[2].prog = "lvcreate" /\ last.cmds[2].rc # 0
    /\ VolName(last.name, last.lun) \notin lvs
    /\ Fiqn(IqnBase, last.name) \in LiveNames(targets)

----------------------------------------------------------------------------

\* a call that failed: pgrep found no daemon or a command exited non-zero, or
\* the call ended after pgrep because the target was not found
Failed(call) ==
    /\ call.op \in PublicOps
    /\ \/ \E i \in 1..Len(call.cmds) : call.cmds[i].rc # 0
       \/ call.op # "add_target" /\ Len(call.cmds) = 1

\* C13: every failure of a public operation (daemon not running, non-zero
\* exit of a command, target not found) is returned as an error string
C13_FailuresAreStrings ==
    Failed(last) => last.ret.type = "str" /\ last.ret.msg # ""

\* an add_target call that ran its ietadm command with exit code 0
AddedTarget(call) ==
    /\ call.op = "add_target"
    /\ Len(call.cmds) = 2
    /\ call.cmds[2].prog = "ietadm" /\ call.cmds[2].rc = 0

\* C14: a successful add_target(name) leaves the lines of the config file as
\* they were and adds one line after them, 'Target <id> <base>:<name>' with
\* the ID that the ietadm command was given
C14_AppendsOneTargetLine ==
    [][(RunningCall /\ AddedTarget(last')) =>
           /\ Len(cfg') = Len(cfg) + 1
           /\ SubSeq(cfg', 1, Len(cfg)) = cfg
           /\ cfg'[Len(cfg')] =
                  <<"T", "a", "r", "g", "e", "t", " ">> \o Dec(last'.cmds[2].tid)
                      \o <<" ">> \o IqnBase \o <<":">> \o last'.name \o <<"\n">>]_vars

C14_Witness ==
    /\ AddedTarget(last)
    /\ Len(cfg) >= 2
    /\ last.cmds[2].tid = 2
    /\ cfg[Len(cfg)] = TargetLine(2, Fiqn(IqnBase, last.name))

\* an add_lun call whose lvcreate and ietadm commands both exited with 0
AddedLun(call) ==
    /\ call.op = "add_lun"
    /\ Len(call.cmds) = 3
    /\ call.cmds[2].rc = 0 /\ call.cmds[3].rc = 0

\* C17: after a successful add_lun(name, lun, size) the config file holds a
\* Lun line for that number whose PATH is the device that was attached to the
\* daemon, /dev/<vg>/<name>_<lun>, the logical volume that lvcreate made
C17_LunLineNamesVolume ==
    [][(RunningCall /\ AddedLun(last')) =>
           /\ last'.cmds[3].arg = DevPath(VolGroup, VolName(last'.name, last'.lun))
           /\ VolName(last'.name, last'.lun) \in lvs'
           /\ \E i \in 1..Len(cfg') :
                  cfg'[i] = <<"\t", "L", "u", "n", " ">> \o Dec(last'.lun)
                                \o <<" ", "P", "A", "T", "H", "=">> \o last'.cmds[3].arg
                                \o <<",", "T", "y", "p", "e", "=">> \o SBlockio
                                \o <<"\n">>]_vars

\* the Target lines of the config file are those of the live targets: one
\* 'Target <tid> <name>' line for every entry of the daemon's table, no other
TargetsListed(ts, clines) ==
    {clines[i] : i \in {j \in 1..Len(clines) : IsTargetLine(clines[j])}}
        = {TargetLine(ts[i].tid, ts[i].name) : i \in 1..Len(ts)}

\* a call of add_target or delete_target all of whose commands exited with 0
TargetCallSucceeded(call) ==
    /\ call.op \in {"add_target", "delete_target"}
    /\ \A i \in 1..Len(call.cmds) : call.cmds[i].rc = 0

\* C18: when the config file lists exactly the live targets with their IDs,
\* it still does after an add_target or delete_target call in which every
\* command succeeded, and so after any sequence of such calls
C18_ConfigMatchesDaemon ==
    [][(TargetsListed(targets, cfg) /\ RunningCall /\ TargetCallSucceeded(last'))
           => TargetsListed(targets', cfg')]_vars

\* the indices of the Lun lines of the target's own block
OwnBlockLuns(clines, name) ==
    IF HasBlock(clines, name)
    THEN (BlockStart(clines, name) + 1)..BlockEnd(clines, BlockStart(clines, name))
    ELSE {}

NamingLines(clines, fiqn) ==
    {i \in 1..Len(clines) : IsTargetLine(clines[i]) /\ Contains(clines[i], fiqn)}

\* the end of the run of Lun lines that follows line i
RECURSIVE LunRunEnd(_, _)
LunRunEnd(clines, i) ==
    IF i < Len(clines) /\ IsLunLine(clines[i + 1]) THEN LunRunEnd(clines, i + 1) ELSE i

----------------------------------------------------------------------------
(* Properties of the invocations that run side by side (SpecSteps) *)

\* what the entries of a log accessed, in order
Accesses(log) == [i \in 1..Len(log) |-> <<log[i].prog, log[i].op>>]

IsPrefix(s, t) == Len(s) <= Len(t) /\ s = SubSeq(t, 1, Len(s))

\* pgrep, detach from the daemon, read and rewrite the config, lvremove
DeleteLunOrder ==
    <<(<<"pgrep", "">>), (<<"ietadm", "delete">>), (<<"file", "readlines">>),
      (<<"file", "rewrite">>), (<<"lvremove", "">>)>>

\* C12: delete_lun detaches the LUN, then edits the config, then removes the
\* volume: the config is read and rewritten only after a detach that exited
\* 0, lvremove runs only after the rewrite, a failed detach ends the call with
\* daemon, config and volumes as they were, and a failed lvremove changes
\* nothing any more, the detach and the rewrite being done
C12_DeleteLunOrder ==
    [][\A p \in Procs :
         (procs'[p] # procs[p] /\ procs'[p].op = "delete_lun") =>
             LET log == procs'[p].log
                 n == Len(log)
             IN  /\ IsPrefix(Accesses(log), DeleteLunOrder)
                 /\ n >= 3 => log[2].rc = 0
                 /\ cfg' # cfg => n = 4
                 /\ (n = 2 /\ log[2].rc # 0) =>
                        /\ UNCHANGED <<targets, cfg, lvs>>
                        /\ procs'[p].pc = "done" /\ procs'[p].ret = RetBool(FALSE)
                 /\ (n = 2 /\ log[2].rc = 0) =>
                        /\ ~HasLun(targets', procs'[p].tid, procs'[p].lun)
                        /\ UNCHANGED <<cfg, lvs>>
                 /\ n = 5 =>
                        /\ UNCHANGED <<targets, cfg>>
                        /\ procs'[p].pc = "done"
                        /\ log[5].rc # 0 =>
                               /\ UNCHANGED lvs
                               /\ procs'[p].ret = RetBool(FALSE)
                        /\ log[5].rc = 0 =>
                               VolName(procs'[p].name, procs'[p].lun) \notin lvs']_vars

\* a delete_lun whose lvremove failed: the LUN is detached, the config has no
\* Lun line any more and the volume is still there
C12_Witness ==
    \E p \in Procs :
        /\ procs[p].op = "delete_lun" /\ procs[p].pc = "done"
        /\ Len(procs[p].log) = 5
        /\ procs[p].log[5].prog = "lvremove" /\ procs[p].log[5].rc # 0
        /\ VolName(procs[p].name, procs[p].lun) \in lvs
        /\ ~HasLun(targets, procs[p].tid, procs[p].lun)
        /\ \A i \in 1..Len(cfg) : ~IsLunLine(cfg[i])
        /\ \E i \in 1..Len(procs[p].buf) : IsLunLine(procs[p].buf[i])

\* job p is in add_target between its read of the volume table and its
\* ietadm command
ChoseTid(p) == procs[p].op = "add_target" /\ procs[p].pc = "ietadm"

\* C15: the ID an add_target has chosen is above every ID of the table it
\* read, and two add_target invocations that have both read the same targets
\* before either created its own hold the same new ID
C15_RaceChoosesSameId ==
    \A p \in Procs :
        ChoseTid(p) =>
            /\ \A t \in LiveTids(procs[p].seen) : procs[p].tid > t
            /\ \A q \in Procs \ {p} :
                   (ChoseTid(q) /\ LiveTids(procs[q].seen) = LiveTids(procs[p].seen))
                       => procs[q].tid = procs[p].tid

\* both invocations read the same empty table, both asked the daemon for the
\* same ID and got exit code 0, and the config file has two Target lines with
\* that ID
C15_Witness ==
    \E p \in Procs : \E q \in Procs \ {p} :
        /\ procs[p].op = "add_target" /\ procs[p].pc = "done"
        /\ procs[q].op = "add_target" /\ procs[q].pc = "done"
        /\ procs[p].seen = procs[q].seen
        /\ procs[p].log[2].prog = "ietadm" /\ procs[p].log[2].rc = 0
        /\ procs[q].log[2].prog = "ietadm" /\ procs[q].log[2].rc = 0
        /\ procs[p].log[2].tid = procs[q].log[2].tid
        /\ \E i \in 1..Len(cfg) : \E j \in 1..Len(cfg) :
               /\ i # j
               /\ cfg[i] = TargetLine(procs[p].tid, Fiqn(IqnBase, procs[p].name))
               /\ cfg[j] = TargetLine(procs[p].tid, Fiqn(IqnBase, procs[q].name))

\* C16: the rewrite that ends a config edit leaves in the file the lines the
\* invocation read, edited by it alone; what another invocation wrote between
\* its read and its rewrite is not in the file any more
C16_RewriteKeepsOnlyOwnEdit ==
    [][\A p \in Procs :
         (procs[p].pc = "rewrite" /\ procs'[p] # procs[p]) =>
             LET fiqn == Fiqn(IqnBase, procs[p].name)
                 buf == procs[p].buf
             IN  /\ procs[p].op \in {"delete_target", "add_lun", "delete_lun"}
                 /\ procs[p].op = "delete_target" =>
                        cfg' = _config_delete_target(buf, fiqn)
                 /\ procs[p].op = "add_lun" =>
                        cfg' = _config_add_lun(buf, fiqn, procs[p].lun, VolGroup,
                                               procs[p].name)
                 /\ procs[p].op = "delete_lun" =>
                        cfg' = _config_delete_lun(buf, fiqn, procs[p].lun)]_vars

\* an add_lun and a delete_lun or delete_target read the same file, the
\* add_lun returned True, and the file is the other invocation's edit of what
\* it read, without the Lun line that the add_lun wrote
C16_Witness ==
    \E p \in Procs : \E q \in Procs \ {p} :
        /\ procs[p].op = "add_lun" /\ procs[p].pc = "done"
        /\ procs[p].ret = RetBool(TRUE)
        /\ procs[q].op \in {"delete_lun", "delete_target"} /\ procs[q].pc = "done"
        /\ \E i \in 1..Len(procs[q].log) : procs[q].log[i] = FileAccess("rewrite")
        /\ procs[p].buf = procs[q].buf
        /\ cfg = Edited(procs[q]) /\ cfg # procs[q].buf
        /\ \A i \in 1..Len(cfg) :
               cfg[i] # LunLine(procs[p].lun, VolGroup, procs[p].name, SBlockio)

====
